---- MODULE Spec2Model ----
(***************************************************************************)
(* Model of Dolphin's HLE implementation of the memory-card unlock uCode   *)
(* (Source/Core/Core/HW/DSPHLE/UCodes/CARD.cpp): the mailbox protocol of   *)
(* CARDUCode::HandleMail and the hash of DoCardHash / DoCardHashStep.      *)
(*                                                                         *)
(* A u32 is the pair <<hi, lo>> of its 16-bit halves (TLC's integers are   *)
(* 32-bit signed); a u16 or u8 is a natural number.                        *)
(***************************************************************************)
EXTENDS Integers, Sequences, FiniteSets, TLC

VARIABLES
  m_crc,                       \* UCodeInterface::m_crc, set by the constructor
  m_state,                     \* CARDUCode::m_state
  m_upload_setup_in_progress,  \* UCodeInterface::m_upload_setup_in_progress
  mailbox,                     \* m_mail_handler: mail pushed to the CPU, not yet read
  mram,                        \* guest memory: the bytes written over GuestImage
  aram,                        \* ARAM: the bytes written over an all-zero image
  accel,                       \* s_accelerator: format, start, end, current address
  last,                        \* what the last call did (observation only)
  inits,                       \* number of Initialize calls and snapshot loads so far
  saved,                       \* the last snapshot written by DoState
  hs                           \* one call of DoCardHash in progress (SpecSteps, SpecSizes)

vars == <<m_crc, m_state, m_upload_setup_in_progress, mailbox, mram, aram, accel,
          last, inits, saved, hs>>

-----------------------------------------------------------------------------
(* Unsigned fixed-width arithmetic                                         *)

RECURSIVE BitXor(_, _, _)
BitXor(a, b, n) == IF n = 0 THEN 0
                   ELSE ((a + b) % 2) + 2 * BitXor(a \div 2, b \div 2, n - 1)

RECURSIVE BitAnd(_, _, _)
BitAnd(a, b, n) == IF n = 0 THEN 0
                   ELSE ((a % 2) * (b % 2)) + 2 * BitAnd(a \div 2, b \div 2, n - 1)

\* Byte-wide tables of ^ and &, computed once.
XorT == [a \in 0..255 |-> [b \in 0..255 |-> BitXor(a, b, 8)]]
AndT == [a \in 0..255 |-> [b \in 0..255 |-> BitAnd(a, b, 8)]]

Xor16(a, b) == XorT[a \div 256][b \div 256] * 256 + XorT[a % 256][b % 256]
And16(a, b) == AndT[a \div 256][b \div 256] * 256 + AndT[a % 256][b % 256]
Or16(a, b) == a + b - And16(a, b)

Xor32(a, b) == <<Xor16(a[1], b[1]), Xor16(a[2], b[2])>>
And32(a, b) == <<And16(a[1], b[1]), And16(a[2], b[2])>>
Or32(a, b) == <<Or16(a[1], b[1]), Or16(a[2], b[2])>>
Not32(a) == <<65535 - a[1], 65535 - a[2]>>

\* u32 + u32 with silent wraparound
Add32(a, b) == LET lo == a[2] + b[2]
                   hi == a[1] + b[1] + (lo \div 65536)
               IN <<hi % 65536, lo % 65536>>

\* u32 >> r and u32 << r for 0 <= r <= 31 (logical shifts, bits shifted out are lost)
Shr32(a, r) ==
  IF r >= 16 THEN <<0, a[1] \div (2 ^ (r - 16))>>
  ELSE <<a[1] \div (2 ^ r), (a[2] \div (2 ^ r)) + (a[1] % (2 ^ r)) * (2 ^ (16 - r))>>

Shl32(a, r) ==
  IF r >= 16 THEN <<(a[2] % (2 ^ (32 - r))) * (2 ^ (r - 16)), 0>>
  ELSE <<(a[1] % (2 ^ (16 - r))) * (2 ^ r) + (a[2] \div (2 ^ (16 - r))),
         (a[2] % (2 ^ (16 - r))) * (2 ^ r)>>

\* A small natural number as a u32, and a u32 below 2^31 as a natural number
U32(n) == <<(n \div 65536) % 65536, n % 65536>>
ToInt(a) == a[1] * 65536 + a[2]

-----------------------------------------------------------------------------
(* Guest memory and ARAM                                                    *)

\* The three protocol states of CARDUCode::State
WaitingForRequest == "WaitingForRequest"
WaitingForAddress == "WaitingForAddress"
WaitingForNextTask == "WaitingForNextTask"
State == {WaitingForRequest, WaitingForAddress, WaitingForNextTask}

CRC_GAMECUBE == <<26070, 52335>>  \* 0x65d6cc6f
CRC_WII == <<26074, 3171>>        \* 0x65da0c63

\* The four bytes of a u32 and the two bytes of a u16, most significant first
BytesOfU32(a) == <<a[1] \div 256, a[1] % 256, a[2] \div 256, a[2] % 256>>
BytesOfU16(n) == <<n \div 256, n % 256>>

\* The hash requests the host has prepared in guest memory: the input bytes as they
\* lie in memory (with the bytes that follow them), the size, the ARAM work address
\* and the low half of the output address.
Requests == <<
  [input |-> <<0, 0, 0, 0, 0, 0, 0, 0>>,             size |-> 8, work |-> 0,   out |-> 12288],
  [input |-> <<0, 0, 0, 0, 0, 0, 0, 1>>,             size |-> 8, work |-> 0,   out |-> 12288],
  [input |-> <<1, 35, 69, 103, 137, 171, 205, 239>>, size |-> 8, work |-> 0,   out |-> 12288],
  [input |-> <<1, 35, 69, 103, 137, 171, 205, 239>>, size |-> 8, work |-> 256, out |-> 12288],
  [input |-> <<1, 35, 69, 103, 137, 171, 205, 239>>, size |-> 8, work |-> 0,   out |-> 12304],
  [input |-> <<0, 1, 255, 255>>,                     size |-> 2, work |-> 0,   out |-> 12288],
  [input |-> <<0, 0, 255, 0>>,                       size |-> 3, work |-> 0,   out |-> 12288],
  [input |-> <<254, 220, 186, 152, 118, 84, 50, 16>>, size |-> 8, work |-> 2,  out |-> 12288],
  [input |-> <<255, 0, 0, 0>>,                       size |-> 1, work |-> 0,   out |-> 12288],
  [input |-> <<0, 18, 52, 86>>,                      size |-> 1, work |-> 0,   out |-> 12288],
  [input |-> <<>>,                                   size |-> 0, work |-> 6,   out |-> 12288] >>

\* How many of Requests the host passes to HandleMail
NumRequests == 5

\* Where the host has put things in guest memory: request k (from 0) has its input
\* at 0x2000 + 16k and its parameter record at 0x1000 + 16k; the records that lie
\* above the GameCube mask have address bit 28 set
Layout == [InputBase |-> 8192, Slot |-> 16, ParamBase |-> 4096, HighBank |-> 4096]

InputAddr(k) == <<0, Layout.InputBase + Layout.Slot * k>>

\* The 16 bytes of the parameter record of request k
ParameterRecord(k) ==
  BytesOfU32(InputAddr(k)) \o BytesOfU16(0) \o BytesOfU16(Requests[k + 1].size)
    \o BytesOfU32(U32(Requests[k + 1].work)) \o BytesOfU32(<<0, Requests[k + 1].out>>)

\* Where the parameter records lie.  Request k has its record at 0x1000 + 16k; the
\* same offsets with address bit 28 set (which the GameCube mask clears and the Wii
\* mask keeps) hold the record of request k + 1; and there is a record where
\* 0xCDD10002 and 0xFF000000, taken for an address and masked, point (0x0DD10002,
\* 0x0F000000 and 0x3F000000).
RecordSites ==
  {[addr |-> <<0, Layout.ParamBase + Layout.Slot * k>>, req |-> k] : k \in 0..(Len(Requests) - 1)}
    \cup {[addr |-> <<Layout.HighBank, Layout.ParamBase + Layout.Slot * k>>, req |-> (k + 1) % NumRequests] :
            k \in 0..(NumRequests - 1)}
    \cup {[addr |-> <<3537, 2>>, req |-> 1],
          [addr |-> <<3840, 0>>, req |-> 1], [addr |-> <<16128, 0>>, req |-> 2]}

\* The byte the host left at guest address a (0 where it left nothing)
GuestImage(a) ==
  IF \E s \in RecordSites : a[1] = s.addr[1] /\ a[2] - s.addr[2] \in 0..(Layout.Slot - 1)
  THEN LET s == CHOOSE s \in RecordSites :
                  a[1] = s.addr[1] /\ a[2] - s.addr[2] \in 0..(Layout.Slot - 1)
       IN ParameterRecord(s.req)[a[2] - s.addr[2] + 1]
  ELSE IF a[1] = 0 /\ a[2] >= Layout.InputBase /\ a[2] < Layout.InputBase + Layout.Slot * Len(Requests)
  THEN LET input == Requests[((a[2] - Layout.InputBase) \div Layout.Slot) + 1].input
           i == (a[2] - Layout.InputBase) % Layout.Slot
       IN IF i < Len(input) THEN input[i + 1] ELSE 0
  ELSE 0

\* mem is the function from the addresses written so far to the bytes written
HLEMemory_Read_U8(mem, a) == IF a \in DOMAIN mem THEN mem[a] ELSE GuestImage(a)

HLEMemory_Read_U16(mem, a) ==
  HLEMemory_Read_U8(mem, a) * 256 + HLEMemory_Read_U8(mem, Add32(a, U32(1)))

HLEMemory_Read_U32(mem, a) ==
  <<HLEMemory_Read_U16(mem, a), HLEMemory_Read_U16(mem, Add32(a, U32(2)))>>

HLEMemory_Write_U32(mem, a, v) ==
  LET b == BytesOfU32(v)
  IN [x \in DOMAIN mem \cup {Add32(a, U32(i)) : i \in 0..3} |->
        IF \E i \in 0..3 : x = Add32(a, U32(i))
        THEN b[(CHOOSE i \in 0..3 : x = Add32(a, U32(i))) + 1]
        ELSE mem[x]]

\* ARAM is all zero until written; ar is the function from the byte addresses
\* written so far to the bytes written.
ReadARAM(ar, address) == IF address \in DOMAIN ar THEN ar[address] ELSE 0
WriteARAM(ar, value, address) ==
  [x \in DOMAIN ar \cup {address} |-> IF x = address THEN value ELSE ar[x]]

\* ReadParameters
ReadParameters(mem, address) ==
  [mram_input_addr |-> HLEMemory_Read_U32(mem, address),
   unused |-> HLEMemory_Read_U16(mem, Add32(address, U32(4))),
   input_size |-> HLEMemory_Read_U16(mem, Add32(address, U32(6))),
   aram_work_addr |-> HLEMemory_Read_U32(mem, Add32(address, U32(8))),
   mram_output_addr |-> HLEMemory_Read_U32(mem, Add32(address, U32(12)))]

-----------------------------------------------------------------------------
(* The accelerator (s_accelerator), as DoCardHash uses it                  *)

\* SetupAccelerator without SetCurrentAddress
SetupAccelerator_KeepCursor(acc, end, cur) ==
  [acc EXCEPT !.format = 0, !.start = 0, !.end = end]

\* SetSampleFormat(0); SetStartAddress(0); SetEndAddress(end); SetCurrentAddress(cur)
SetupAccelerator(acc, end, cur) ==
  [acc EXCEPT !.format = 0, !.start = 0, !.end = end, !.current = cur]

\* The cursor after one access: it runs over start..end and wraps to start
NextAddress(acc) == IF acc.current >= acc.end THEN acc.start ELSE acc.current + 1

\* WriteD3: a 16-bit word, high byte first, at word address current
WriteD3(h, value) ==
  [h EXCEPT !.aram = WriteARAM(WriteARAM(h.aram, value \div 256, 2 * h.accel.current),
                               value % 256, 2 * h.accel.current + 1),
            !.accel.current = NextAddress(h.accel),
            !.ended = h.ended \/ h.accel.current >= h.accel.end,
            !.writes = h.writes + 1]

\* The value ReadD3 returns: the nibble at nibble address current, the high nibble
\* of its byte at an even address and the low nibble at an odd one
NibbleAt(ar, address) ==
  LET byte == ReadARAM(ar, address \div 2)
  IN IF address % 2 = 1 THEN byte % 16 ELSE byte \div 16

\* What ReadD3 does to the accelerator
AfterReadD3(h) ==
  [h EXCEPT !.accel.current = NextAddress(h.accel),
            !.ended = h.ended \/ h.accel.current >= h.accel.end,
            !.reads = h.reads + 1]

-----------------------------------------------------------------------------
(* The hash                                                                *)

\* The only element of a one-element set.  TheOne({F(x) : x \in {e}}) is F(e) with e
\* evaluated first, once: one statement after another.
TheOne(S) == CHOOSE v \in S : TRUE

\* DoCardHashStep, in three parts; data is the CardUcodeWorkData
\* StepTmp1 without the sign extension of the low byte
StepTmp1_NoSignExtend(prev1, prev2, new1, new2) ==
  LET t0 == Or16((new2 * 16) % 65536, prev2)
      t2 == Xor16(t0, (prev1 * 256) % 65536)
  IN Xor16(t2, (new1 * 4096) % 65536)

\* StepTmp1 that ors prev1 and new1 in, where the code xors
StepTmp1_OrHigh(prev1, prev2, new1, new2) ==
  LET t0 == Or16((new2 * 16) % 65536, prev2)
      t1 == IF And16(t0, 128) # 0 THEN Or16(t0, 65280) ELSE t0
      t2 == Or16(t1, (prev1 * 256) % 65536)
  IN Or16(t2, (new1 * 4096) % 65536)

\* u16 tmp1 of DoCardHashStep
StepTmp1(prev1, prev2, new1, new2) ==
  LET t0 == Or16((new2 * 16) % 65536, prev2)
      t1 == IF And16(t0, 128) # 0 THEN Or16(t0, 65280) ELSE t0
      t2 == Xor16(t1, (prev1 * 256) % 65536)
  IN Xor16(t2, (new1 * 4096) % 65536)

\* u32 rotate of DoCardHashStep, from work_0410 and the incremented work_0411
StepRotate(work_0410, work_0411) == (work_0410 + work_0411) % 32

\* StepTmp3 without the bits shifted out added back
StepTmp3_ShiftOnly(tmp2, rotate) == Shr32(tmp2, rotate)

\* u32 tmp3 of DoCardHashStep
StepTmp3(tmp2, rotate) ==
  IF rotate # 0 THEN Add32(Shr32(tmp2, rotate), Shl32(tmp2, 32 - rotate))
  ELSE Shr32(tmp2, rotate)

DoCardHashStep(data, prev1, prev2, new1, new2) ==
  LET tmp1 == StepTmp1(prev1, prev2, new1, new2)
      w0408 == Add32(data.work_0408, <<0, tmp1>>)
      tmp2 == Add32(Xor32(data.work_040c, data.work_040e), w0408)
      w0411 == (data.work_0411 + 1) % 65536
      rotate == StepRotate(data.work_0410, w0411)
      tmp3 == StepTmp3(tmp2, rotate)
      w040a == Add32(data.work_040a, tmp3)
      w040c == Or32(And32(Not32(w0408), w040a), And32(w0408, data.work_040e))
      w040e == Xor32(Xor32(w0408, w040a), w040c)
  IN [work_0408 |-> w0408, work_040a |-> w040a, work_040c |-> w040c,
      work_040e |-> w040e, work_0410 |-> data.work_0410, work_0411 |-> w0411]

\* const u16 dma_size = (params.input_size + 3) & ~3
DmaSize(input_size) == ((input_size + 3) - ((input_size + 3) % 4)) % 65536

\* The local buffer: dma_size bytes of guest memory from mram_input_addr
CopyInput(mem, addr, dma_size) ==
  [k \in 1..dma_size |-> HLEMemory_Read_U8(mem, Add32(addr, U32(k - 1)))]

\* buffer[index], for an index below the size of the vector (the sizes for which
\* an index is not are those of SpecSizes)
BufferAt(h, index) == h.buffer[index + 1]

\* BeginHash that leaves the accelerator as the call before left it
BeginHash_NoSetup(params, mem, ar, acc) ==
  [params |-> params,
   buffer |-> CopyInput(mem, params.mram_input_addr, DmaSize(params.input_size)),
   sum |-> 0,
   data |-> [work_0408 |-> <<0, 0>>, work_040a |-> <<0, 0>>, work_040c |-> <<0, 0>>,
             work_040e |-> <<0, 0>>, work_0410 |-> 0, work_0411 |-> 0],
   prev1 |-> 0, prev2 |-> 0, new_counter |-> 0, i |-> 0,
   mram |-> mem, aram |-> ar,
   accel |-> acc,
   reads |-> 0, writes |-> 0, steps |-> 0, ended |-> FALSE, pc |-> "write"]

\* DoCardHash up to the first loop: the local buffer and the accelerator set up for
\* writing words.  h carries the locals of one call and the memories it changes.
BeginHash(params, mem, ar, acc) ==
  [params |-> params,
   buffer |-> CopyInput(mem, params.mram_input_addr, DmaSize(params.input_size)),
   sum |-> 0,
   data |-> [work_0408 |-> <<0, 0>>, work_040a |-> <<0, 0>>, work_040c |-> <<0, 0>>,
             work_040e |-> <<0, 0>>, work_0410 |-> 0, work_0411 |-> 0],
   prev1 |-> 0, prev2 |-> 0, new_counter |-> 0, i |-> 0,
   mram |-> mem, aram |-> ar,
   accel |-> SetupAccelerator(acc, 33554431, ToInt(params.aram_work_addr)),
   reads |-> 0, writes |-> 0, steps |-> 0, ended |-> FALSE, pc |-> "write"]

\* One iteration of the loop that copies the buffer to the accelerator
WriteLoopBody(h) ==
  LET first == BufferAt(h, 2 * h.i)
      second == BufferAt(h, 2 * h.i + 1)
      w == WriteD3(h, first * 256 + second)
  IN [w EXCEPT !.sum = h.sum + first + second, !.i = h.i + 1]

\* WriteLastByte that adds both bytes of the last word to sum
WriteLastByte_SumBoth(h) ==
  IF h.params.input_size % 2 = 1
  THEN LET first == BufferAt(h, h.params.input_size - 1)
           second == BufferAt(h, h.params.input_size)
           w == WriteD3(h, first * 256 + second)
       IN [w EXCEPT !.sum = h.sum + first + second]
  ELSE h

\* if (params.input_size & 1): the last byte
WriteLastByte(h) ==
  IF h.params.input_size % 2 = 1
  THEN LET first == BufferAt(h, h.params.input_size - 1)
           second == BufferAt(h, h.params.input_size)
           w == WriteD3(h, first * 256 + second)
       IN [w EXCEPT !.sum = h.sum + first]
  ELSE h

\* NewCounter that rounds up: input_size / 2
NewCounter_HalfSize(input_size) ==
  IF input_size # 0 THEN input_size \div 2 ELSE 65535

\* NewCounter without the case of an input_size of 0: (0 - 1) / 2 is 0 in C++
NewCounter_NoUnderflow(input_size) ==
  IF input_size # 0 THEN (input_size - 1) \div 2 ELSE 0

\* u16 new_counter: (input_size - 1) / 2, and 0xffff for an input_size of 0
NewCounter(input_size) == IF input_size # 0 THEN (input_size - 1) \div 2 ELSE 65535

\* The initial work data, the accelerator set up for reading nibbles, the first two
\* nibbles and the loop count
InitHash(h) ==
  LET acc == SetupAccelerator(h.accel, 134217727, ToInt(h.params.aram_work_addr))
      h1 == [h EXCEPT !.accel = acc]
      h2 == AfterReadD3(h1)
      h3 == AfterReadD3(h2)
  IN [h3 EXCEPT
        !.data = [work_0408 |-> Add32(U32(h.sum), <<5898, 29833>>),
                  work_040a |-> <<1519, 57514>>,
                  work_040c |-> <<56052, 45399>>,
                  work_040e |-> <<27582, 50102>>,
                  work_0410 |-> (h.sum + 8) % 65536,
                  work_0411 |-> 0],
        !.prev1 = NibbleAt(h.aram, h1.accel.current),
        !.prev2 = NibbleAt(h.aram, h2.accel.current),
        !.new_counter = NewCounter(h.params.input_size),
        !.i = 0]

\* Two nibbles read and one DoCardHashStep; prev is replaced when keep is false
ReadAndStep(h, keep) ==
  LET h1 == AfterReadD3(h)
      h2 == AfterReadD3(h1)
      new1 == NibbleAt(h.aram, h.accel.current)
      new2 == NibbleAt(h.aram, h1.accel.current)
  IN [h2 EXCEPT !.data = DoCardHashStep(h.data, h.prev1, h.prev2, new1, new2),
                !.prev1 = IF keep THEN h.prev1 ELSE new1,
                !.prev2 = IF keep THEN h.prev2 ELSE new2,
                !.steps = h.steps + 1]

\* One iteration of the hashing loop: two steps
HashLoopBody(h) ==
  TheOne({[h2 EXCEPT !.i = h.i + 1] :
            h2 \in {ReadAndStep(h1, FALSE) : h1 \in {ReadAndStep(h, FALSE)}}})

\* FinalStep that takes its step for odd sizes too
FinalStep_Always(h) == ReadAndStep(h, TRUE)

\* if ((params.input_size & 1) == 0): one more step
FinalStep(h) == IF h.params.input_size % 2 = 0 THEN ReadAndStep(h, TRUE) ELSE h

\* WriteBack that stores work_0408 in place of work_040a
WriteBack_0408(h) ==
  [h EXCEPT !.mram = HLEMemory_Write_U32(h.mram, h.params.mram_output_addr,
                                         h.data.work_0408),
            !.pc = "done"]

\* HLEMemory_Write_U32(params.mram_output_addr, data.work_040a)
WriteBack(h) ==
  [h EXCEPT !.mram = HLEMemory_Write_U32(h.mram, h.params.mram_output_addr,
                                         h.data.work_040a),
            !.pc = "done"]

\* for (i = 0; i < input_size / 2; i++): n iterations
RECURSIVE WriteLoop(_, _)
WriteLoop(h, n) ==
  IF n = 0 THEN h
  ELSE IF n = 1 THEN WriteLoopBody(h)
  ELSE TheOne({WriteLoop(r, n - (n \div 2)) : r \in {WriteLoop(h, n \div 2)}})

\* for (i = 0; i < new_counter; i++): n iterations
RECURSIVE HashLoop(_, _)
HashLoop(h, n) ==
  IF n = 0 THEN h
  ELSE IF n = 1 THEN HashLoopBody(h)
  ELSE TheOne({HashLoop(r, n - (n \div 2)) : r \in {HashLoop(h, n \div 2)}})

\* DoCardHash, from the parameters to the result in guest memory
DoCardHash(params, mem, ar, acc) ==
  TheOne({WriteBack(h5) :
    h5 \in {FinalStep(h4) :
      h4 \in {HashLoop(h3, h3.new_counter) :
        h3 \in {InitHash(h2) :
          h2 \in {WriteLastByte(h1) :
            h1 \in {WriteLoop(h0, params.input_size \div 2) :
              h0 \in {BeginHash(params, mem, ar, acc)}}}}}}})

-----------------------------------------------------------------------------
(* The protocol                                                            *)

MAIL_UNLOCK == <<65280, 0>>     \* 0xFF000000
MAIL_NEW_UCODE == <<52689, 1>>  \* 0xCDD10001
MAIL_RESET == <<52689, 2>>      \* 0xCDD10002

\* The fields of the running instance and the memories it works on
Machine ==
  [m_crc |-> m_crc, m_state |-> m_state,
   m_upload_setup_in_progress |-> m_upload_setup_in_progress,
   mailbox |-> mailbox, mram |-> mram, aram |-> aram, accel |-> accel]

\* MaskAddress with the mask 0x0fff'ffff whatever the CRC
MaskAddress_GameCube(crc, mail) == And32(mail, <<4095, 65535>>)

\* const u32 mask = (m_crc == CRC_WII) ? 0x3fff'ffff : 0x0fff'ffff; mail & mask
MaskAddress(crc, mail) ==
  And32(mail, IF crc = CRC_WII THEN <<16383, 65535>> ELSE <<4095, 65535>>)

\* What a call of DoCardHash did, for the record of the last call
NoHash == [ran |-> FALSE]
HashSummary(h) ==
  [ran |-> TRUE, params |-> h.params, buffer |-> h.buffer, result |-> h.data.work_040a,
   new_counter |-> h.new_counter, steps |-> h.steps, reads |-> h.reads,
   writes |-> h.writes, ended |-> h.ended]

\* HandleAddress that sends DSP_DONE before it runs the hash
HandleAddress_DoneFirst(M, mail) ==
  TheOne({
    TheOne({
      [m |-> [M EXCEPT !.mram = h.mram, !.aram = h.aram, !.accel = h.accel,
                       !.mailbox = Append(M.mailbox, "DSP_DONE"),
                       !.m_state = WaitingForNextTask],
       events |-> <<<<"ReadParameters", address>>,
                    <<"PushMail", "DSP_DONE">>,
                    <<"DoCardHash", h.params>>,
                    <<"HLEMemory_Write_U32", h.params.mram_output_addr, h.data.work_040a>>>>,
       h |-> HashSummary(h)] :
      h \in {DoCardHash(params, M.mram, M.aram, M.accel) :
               params \in {ReadParameters(M.mram, address)}}}) :
    address \in {MaskAddress(M.m_crc, mail)}})

\* HandleAddress that stays in WaitingForAddress
HandleAddress_StayWaiting(M, mail) ==
  TheOne({
    TheOne({
      [m |-> [M EXCEPT !.mram = h.mram, !.aram = h.aram, !.accel = h.accel,
                       !.mailbox = Append(M.mailbox, "DSP_DONE")],
       events |-> <<<<"ReadParameters", address>>,
                    <<"DoCardHash", h.params>>,
                    <<"HLEMemory_Write_U32", h.params.mram_output_addr, h.data.work_040a>>,
                    <<"PushMail", "DSP_DONE">>>>,
       h |-> HashSummary(h)] :
      h \in {DoCardHash(params, M.mram, M.aram, M.accel) :
               params \in {ReadParameters(M.mram, address)}}}) :
    address \in {MaskAddress(M.m_crc, mail)}})

\* case State::WaitingForAddress
HandleAddress(M, mail) ==
  TheOne({
    TheOne({
      [m |-> [M EXCEPT !.mram = h.mram, !.aram = h.aram, !.accel = h.accel,
                       !.mailbox = Append(M.mailbox, "DSP_DONE"),
                       !.m_state = WaitingForNextTask],
       events |-> <<<<"ReadParameters", address>>,
                    <<"DoCardHash", h.params>>,
                    <<"HLEMemory_Write_U32", h.params.mram_output_addr, h.data.work_040a>>,
                    <<"PushMail", "DSP_DONE">>>>,
       h |-> HashSummary(h)] :
      h \in {DoCardHash(params, M.mram, M.aram, M.accel) :
               params \in {ReadParameters(M.mram, address)}}}) :
    address \in {MaskAddress(M.m_crc, mail)}})

\* HandleNextTask that goes back to WaitingForRequest on an unknown word
HandleNextTask_Restart(M, mail) ==
  IF mail = MAIL_NEW_UCODE
  THEN [m |-> [M EXCEPT !.m_upload_setup_in_progress = TRUE], events |-> <<>>, h |-> NoHash]
  ELSE IF mail = MAIL_RESET
  THEN [m |-> M, events |-> <<<<"SetUCode", "UCODE_ROM">>>>, h |-> NoHash]
  ELSE [m |-> [M EXCEPT !.m_state = WaitingForRequest], events |-> <<>>, h |-> NoHash]

\* HandleNextTask that looks at the high half of the word only, for the reset
HandleNextTask_HighHalf(M, mail) ==
  IF mail = MAIL_NEW_UCODE
  THEN [m |-> [M EXCEPT !.m_upload_setup_in_progress = TRUE], events |-> <<>>, h |-> NoHash]
  ELSE IF mail[1] = MAIL_RESET[1]
  THEN [m |-> M, events |-> <<<<"SetUCode", "UCODE_ROM">>>>, h |-> NoHash]
  ELSE [m |-> M, events |-> <<>>, h |-> NoHash]

\* case State::WaitingForNextTask
HandleNextTask(M, mail) ==
  IF mail = MAIL_NEW_UCODE
  THEN [m |-> [M EXCEPT !.m_upload_setup_in_progress = TRUE], events |-> <<>>, h |-> NoHash]
  ELSE IF mail = MAIL_RESET
  THEN [m |-> M, events |-> <<<<"SetUCode", "UCODE_ROM">>>>, h |-> NoHash]
  ELSE [m |-> M, events |-> <<>>, h |-> NoHash]

\* HandleMailFn that looks for the unlock request before the upload flag
HandleMailFn_RequestFirst(M, mail) ==
  IF M.m_state = WaitingForRequest
  THEN IF mail = MAIL_UNLOCK
       THEN [m |-> [M EXCEPT !.m_state = WaitingForAddress], events |-> <<>>, h |-> NoHash]
       ELSE [m |-> M, events |-> <<>>, h |-> NoHash]
  ELSE IF M.m_upload_setup_in_progress
  THEN [m |-> M, events |-> <<<<"PrepareBootUCode", mail>>>>, h |-> NoHash]
  ELSE IF M.m_state = WaitingForAddress
  THEN HandleAddress(M, mail)
  ELSE HandleNextTask(M, mail)

\* CARDUCode::HandleMail: the instance and memories after the call, and what the
\* call did to its collaborators, in order
HandleMailFn(M, mail) ==
  IF M.m_upload_setup_in_progress
  THEN [m |-> M, events |-> <<<<"PrepareBootUCode", mail>>>>, h |-> NoHash]
  ELSE IF M.m_state = WaitingForRequest
  THEN IF mail = MAIL_UNLOCK
       THEN [m |-> [M EXCEPT !.m_state = WaitingForAddress], events |-> <<>>, h |-> NoHash]
       ELSE [m |-> M, events |-> <<>>, h |-> NoHash]
  ELSE IF M.m_state = WaitingForAddress
  THEN HandleAddress(M, mail)
  ELSE HandleNextTask(M, mail)

\* The accelerator of a process that has not run a hash yet
FreshAccelerator == [format |-> 0, start |-> 0, end |-> 0, current |-> 0]

\* CARDUCode::CARDUCode: a freshly constructed instance for the memories of M.
\* s_accelerator is a static of the process: the constructor leaves it as it is.
Constructed(M) ==
  [M EXCEPT !.m_state = WaitingForRequest, !.m_upload_setup_in_progress = FALSE]

\* UCodeInterface::DoStateShared, writing: the upload flag
DoStateSharedWrite(M) == <<M.m_upload_setup_in_progress>>

\* DoStateWrite without p.Do(m_state)
DoStateWrite_SharedOnly(M) == DoStateSharedWrite(M)

\* CARDUCode::DoState, writing: DoStateShared(p); p.Do(m_state)
DoStateWrite(M) == DoStateSharedWrite(M) \o <<M.m_state>>

\* CARDUCode::DoState, reading: each value the snapshot holds goes to its field
DoStateRead(M, snapshot) ==
  LET shared == IF Len(snapshot) >= 1
                THEN [M EXCEPT !.m_upload_setup_in_progress = snapshot[1]] ELSE M
  IN IF Len(snapshot) >= 2 THEN [shared EXCEPT !.m_state = snapshot[2]] ELSE shared

\* The mail words the CPU sends.  AddressWords are those it sends for an address:
\* the addresses of parameter records, some with bits set above the masks, and two
\* protocol words (the memory they point to holds a record).  MailWords adds the
\* other command and a word with the high half of the commands and another low half.
AddressWords ==
  {<<0, Layout.ParamBase + Layout.Slot * k>> : k \in 0..(NumRequests - 1)}
    \cup {<<Layout.HighBank, Layout.ParamBase>>, <<53248, Layout.ParamBase + Layout.Slot>>, <<49152, Layout.ParamBase + 2 * Layout.Slot>>}
    \cup {MAIL_UNLOCK, MAIL_RESET}
MailWords == AddressWords \cup {MAIL_NEW_UCODE, <<52689, 3>>}

\* How many times the instance is started again: by Initialize, or by a snapshot
\* loaded into a new instance
MaxInits == 1

NoCall == [op |-> "none"]
NoSnapshot == [taken |-> FALSE]

Init ==
  /\ m_crc \in {CRC_GAMECUBE, CRC_WII}
  /\ m_state = WaitingForRequest
  /\ m_upload_setup_in_progress = FALSE
  /\ mailbox = <<>>
  /\ mram = <<>>
  /\ aram = <<>>
  /\ accel = FreshAccelerator
  /\ last = NoCall
  /\ inits = 0
  /\ saved = NoSnapshot
  /\ hs = <<>>

\* Initialize that leaves m_state as it is
Initialize_KeepState ==
  /\ inits < MaxInits
  /\ mailbox' = Append(mailbox, "DSP_INIT")
  /\ m_state' = m_state
  /\ inits' = inits + 1
  /\ last' = [op |-> "Initialize", state |-> m_state,
              upload |-> m_upload_setup_in_progress, pushed |-> <<"DSP_INIT">>]
  /\ UNCHANGED <<m_crc, m_upload_setup_in_progress, mram, aram, accel, saved, hs>>

\* CARDUCode::Initialize
Initialize ==
  /\ inits < MaxInits
  /\ mailbox' = Append(mailbox, "DSP_INIT")
  /\ m_state' = WaitingForRequest
  /\ inits' = inits + 1
  /\ last' = [op |-> "Initialize", state |-> m_state,
              upload |-> m_upload_setup_in_progress,
              pushed |-> SubSeq(mailbox', Len(mailbox) + 1, Len(mailbox'))]
  /\ UNCHANGED <<m_crc, m_upload_setup_in_progress, mram, aram, accel, saved, hs>>

\* CARDUCode::HandleMail(mail)
HandleMail(mail) ==
  /\ (~m_upload_setup_in_progress /\ m_state = WaitingForAddress) => mail \in AddressWords
  /\ \E r \in {HandleMailFn(Machine, mail)} :
     /\ m_state' = r.m.m_state
     /\ m_upload_setup_in_progress' = r.m.m_upload_setup_in_progress
     /\ mailbox' = r.m.mailbox
     /\ mram' = r.m.mram
     /\ aram' = r.m.aram
     /\ accel' = r.m.accel
     /\ last' = [op |-> "HandleMail", mail |-> mail, state |-> m_state,
                 upload |-> m_upload_setup_in_progress, events |-> r.events, h |-> r.h,
                 pushed |-> SubSeq(r.m.mailbox, Len(mailbox) + 1, Len(r.m.mailbox)),
                 before |-> [mram |-> mram, aram |-> aram, accel |-> accel]]
     /\ UNCHANGED <<m_crc, inits, saved, hs>>

\* CARDUCode::Update: an interrupt is raised when mail is pending
Update ==
  /\ last' = [op |-> "Update", interrupt |-> Len(mailbox) > 0]
  /\ UNCHANGED <<m_crc, m_state, m_upload_setup_in_progress, mailbox, mram, aram, accel,
                 inits, saved, hs>>

\* CARDUCode::DoState(p) with p writing: the snapshot, and beside it the instance
\* it was taken of
DoStateSave ==
  /\ saved' = [taken |-> TRUE, snapshot |-> DoStateWrite(Machine),
               m_state |-> m_state, upload |-> m_upload_setup_in_progress]
  /\ last' = [op |-> "DoState", mode |-> "write"]
  /\ UNCHANGED <<m_crc, m_state, m_upload_setup_in_progress, mailbox, mram, aram, accel,
                 inits, hs>>

\* CARDUCode::DoState(p) with p reading, on a freshly constructed instance that
\* takes the place of the running one.  The accelerator is a static of the
\* process: it is as it was, or that of a new process.
DoStateLoad ==
  /\ saved.taken
  /\ inits < MaxInits
  /\ inits' = inits + 1
  /\ \E r \in {DoStateRead(Constructed(Machine), saved.snapshot)} :
       /\ m_state' = r.m_state
       /\ m_upload_setup_in_progress' = r.m_upload_setup_in_progress
  /\ accel' \in {accel, FreshAccelerator}
  /\ last' = [op |-> "DoState", mode |-> "read"]
  /\ UNCHANGED <<m_crc, mailbox, mram, aram, saved, hs>>

Next ==
  \/ Initialize
  \/ \E mail \in MailWords : HandleMail(mail)
  \/ Update
  \/ DoStateSave
  \/ DoStateLoad

Spec == Init /\ [][Next]_vars

-----------------------------------------------------------------------------
(* DoCardHash loop by loop: one call, from a parameter record to the result *)

\* The parameter records DoCardHash is run on: those of Requests, and the all-zero
\* record that an address the host never wrote gives
StepAddresses == {<<0, 0>>} \cup {<<0, Layout.ParamBase + Layout.Slot * k>> : k \in 0..(Len(Requests) - 1)}

InitSteps ==
  /\ m_crc = CRC_GAMECUBE
  /\ m_state = WaitingForAddress
  /\ m_upload_setup_in_progress = FALSE
  /\ mailbox = <<>>
  /\ mram = <<>>
  /\ aram = <<>>
  /\ accel = FreshAccelerator
  /\ last = NoCall
  /\ inits = 0
  /\ saved = NoSnapshot
  /\ hs \in {BeginHash(ReadParameters(mram, a), mram, aram, accel) : a \in StepAddresses}

mainvars == <<m_crc, m_state, m_upload_setup_in_progress, mailbox, mram, aram, accel,
              last, inits, saved>>

\* An iteration of for (i = 0; i < input_size / sizeof(u16); i++)
StepWrite ==
  /\ hs.pc = "write"
  /\ hs.i < hs.params.input_size \div 2
  /\ hs' = WriteLoopBody(hs)
  /\ UNCHANGED mainvars

\* After that loop: the last byte of an odd size
StepLastByte ==
  /\ hs.pc = "write"
  /\ ~(hs.i < hs.params.input_size \div 2)
  /\ hs' = [WriteLastByte(hs) EXCEPT !.pc = "init"]
  /\ UNCHANGED mainvars

\* The work data, the accelerator set up again, prev1 and prev2, new_counter
StepInit ==
  /\ hs.pc = "init"
  /\ hs' = [InitHash(hs) EXCEPT !.pc = "hash"]
  /\ UNCHANGED mainvars

\* An iteration of for (i = 0; i < new_counter; i++)
StepHash ==
  /\ hs.pc = "hash"
  /\ hs.i < hs.new_counter
  /\ hs' = HashLoopBody(hs)
  /\ UNCHANGED mainvars

\* After that loop: the step of an even size, and the result written to memory
StepFinal ==
  /\ hs.pc = "hash"
  /\ ~(hs.i < hs.new_counter)
  /\ \E h \in {FinalStep(hs)} : hs' = WriteBack(h)
  /\ UNCHANGED mainvars

NextSteps == StepWrite \/ StepLastByte \/ StepInit \/ StepHash \/ StepFinal

SpecSteps == InitSteps /\ [][NextSteps]_vars


-----------------------------------------------------------------------------
(* The local buffer of DoCardHash and the indices read from it, size by size *)

\* The sizes looked at: 0..MaxSmallSize, and the four largest a u16 holds
MaxSmallSize == 63
TopSizes == 4
SizeSamples == (0..MaxSmallSize) \cup {65535 - k : k \in 0..(TopSizes - 1)}

\* The indices of buffer read by the loop over input_size / 2 words and by the
\* handling of the last byte of an odd size
BufferIndices(input_size) ==
  {2 * i : i \in 0..((input_size \div 2) - 1)}
    \cup {2 * i + 1 : i \in 0..((input_size \div 2) - 1)}
    \cup (IF input_size % 2 = 1 THEN {input_size - 1, input_size} ELSE {})

InitSizes ==
  /\ m_crc = CRC_GAMECUBE
  /\ m_state = WaitingForAddress
  /\ m_upload_setup_in_progress = FALSE
  /\ mailbox = <<>>
  /\ mram = <<>>
  /\ aram = <<>>
  /\ accel = FreshAccelerator
  /\ last = NoCall
  /\ inits = 0
  /\ saved = NoSnapshot
  /\ hs \in {[pc |-> "start", input_size |-> n] : n \in SizeSamples}

\* dma_size, and the copy of dma_size bytes to the local buffer
SizeCopy ==
  /\ hs.pc = "start"
  /\ hs' = [pc |-> "copied", input_size |-> hs.input_size,
            dma_size |-> DmaSize(hs.input_size),
            copied |-> Len(CopyInput(mram, <<0, Layout.InputBase>>, DmaSize(hs.input_size)))]
  /\ UNCHANGED mainvars

\* The reads of the buffer that follow.  A read at an index that is not less than
\* the number of bytes copied is undefined behaviour: what it gives is not followed.
SizeStream ==
  /\ hs.pc = "copied"
  /\ hs' = [pc |-> "streamed", input_size |-> hs.input_size, dma_size |-> hs.dma_size,
            copied |-> hs.copied, reads |-> Cardinality(BufferIndices(hs.input_size)),
            undefined |-> \E index \in BufferIndices(hs.input_size) : index >= hs.copied]
  /\ UNCHANGED mainvars

NextSizes == SizeCopy \/ SizeStream

SpecSizes == InitSizes /\ [][NextSizes]_vars

-----------------------------------------------------------------------------
(* Properties of the protocol and of the hash, on Spec                     *)

\* C1: a request of input_size 8 and work address 0 writes, at its output address,
\* 0x24349566 for the input 00 00 00 00 00 00 00 00, 0xAEE1A9CC for
\* 00 00 00 00 00 00 00 01 and 0x9B5FE1FB for 01 23 45 67 89 AB CD EF.
C1_KnownVectors ==
  (/\ last.op = "HandleMail"
   /\ last.h.ran
   /\ last.h.params.input_size = 8
   /\ last.h.params.aram_work_addr = <<0, 0>>)
  => \A v \in {<<<<0, 0, 0, 0, 0, 0, 0, 0>>, <<9268, 38246>>>>,
               <<<<0, 0, 0, 0, 0, 0, 0, 1>>, <<44769, 43468>>>>,
               <<<<1, 35, 69, 103, 137, 171, 205, 239>>, <<39775, 57851>>>>} :
       last.h.buffer = v[1]
       => /\ last.h.result = v[2]
          /\ HLEMemory_Read_U32(mram, last.h.params.mram_output_addr) = v[2]

\* A request for 01 23 45 67 89 AB CD EF at work address 0 has been served
C1_Witness ==
  /\ last.op = "HandleMail"
  /\ last.h.ran
  /\ last.h.params.input_size = 8
  /\ last.h.params.aram_work_addr = <<0, 0>>
  /\ last.h.buffer = <<1, 35, 69, 103, 137, 171, 205, 239>>
  /\ HLEMemory_Read_U32(mram, last.h.params.mram_output_addr) = <<39775, 57851>>

\* C2: Initialize leaves the instance waiting for a request; with the upload flag
\* clear, 0xFF000000 then moves it to WaitingForAddress and sends no mail; the next
\* word, whatever it is, is taken as an address: in that one call the parameters are
\* read, the hash is run, its result is written at the output address, then exactly
\* one DSP_DONE is sent, and the instance is in WaitingForNextTask.  The write comes
\* before the mail.
C2_HappyPath ==
  /\ last.op = "Initialize" => m_state = WaitingForRequest
  /\ (/\ last.op = "HandleMail"
      /\ ~last.upload
      /\ last.state = WaitingForRequest
      /\ last.mail = <<65280, 0>>)
     => /\ m_state = WaitingForAddress
        /\ last.pushed = <<>>
        /\ last.events = <<>>
  /\ (/\ last.op = "HandleMail"
      /\ ~last.upload
      /\ last.state = WaitingForAddress)
     => /\ m_state = WaitingForNextTask
        /\ last.h.ran
        /\ last.pushed = <<"DSP_DONE">>
        /\ Len(last.events) = 4
        /\ last.events[1][1] = "ReadParameters"
        /\ last.events[2] = <<"DoCardHash", last.h.params>>
        /\ last.events[3] = <<"HLEMemory_Write_U32", last.h.params.mram_output_addr,
                              last.h.result>>
        /\ last.events[4] = <<"PushMail", "DSP_DONE">>
        /\ HLEMemory_Read_U32(mram, last.h.params.mram_output_addr) = last.h.result

\* After Initialize, the unlock and an address, DSP_INIT and DSP_DONE are pending
C2_Witness ==
  /\ last.op = "HandleMail"
  /\ ~last.upload
  /\ last.state = WaitingForAddress
  /\ m_state = WaitingForNextTask
  /\ mailbox = <<"DSP_INIT", "DSP_DONE">>
  /\ last.h.ran

\* C3: with the upload flag clear, a word other than 0xFF000000 in
\* WaitingForRequest, and a word other than 0xCDD10001 and 0xCDD10002 in
\* WaitingForNextTask, change nothing: same state, same flag, no mail, no hash, no
\* write to memory, no switch of ucode; the correct word is still accepted after.
C3_ViolationsIgnored ==
  (/\ last.op = "HandleMail"
   /\ ~last.upload
   /\ \/ last.state = WaitingForRequest /\ last.mail # <<65280, 0>>
      \/ last.state = WaitingForNextTask /\ last.mail \notin {<<52689, 1>>, <<52689, 2>>})
  => /\ m_state = last.state
     /\ ~m_upload_setup_in_progress
     /\ last.pushed = <<>>
     /\ last.events = <<>>
     /\ ~last.h.ran
     /\ mram = last.before.mram
     /\ aram = last.before.aram
     /\ m_state = WaitingForRequest
        => HandleMailFn(Machine, <<65280, 0>>).m.m_state = WaitingForAddress
     /\ m_state = WaitingForNextTask
        => /\ HandleMailFn(Machine, <<52689, 1>>).m.m_upload_setup_in_progress
           /\ HandleMailFn(Machine, <<52689, 2>>).events = <<<<"SetUCode", "UCODE_ROM">>>>

\* An address has been sent after a hash, where a command was expected
C3_Witness ==
  /\ last.op = "HandleMail"
  /\ ~last.upload
  /\ last.state = WaitingForNextTask
  /\ last.mail = <<0, 4096>>
  /\ m_state = WaitingForNextTask

\* C4: 0xCDD10001 in WaitingForNextTask sets the upload flag and leaves the state;
\* while the flag is set every word, 0xFF000000 and 0xCDD10002 too, is handed to
\* PrepareBootUCode and nothing else happens: same state, no mail, no hash, no
\* switch of ucode.
C4_UploadPriority ==
  /\ (/\ last.op = "HandleMail"
      /\ ~last.upload
      /\ last.state = WaitingForNextTask
      /\ last.mail = <<52689, 1>>)
     => /\ m_upload_setup_in_progress
        /\ m_state = WaitingForNextTask
        /\ last.events = <<>>
  /\ (last.op = "HandleMail" /\ last.upload)
     => /\ last.events = <<<<"PrepareBootUCode", last.mail>>>>
        /\ m_state = last.state
        /\ last.pushed = <<>>
        /\ ~last.h.ran
        /\ mram = last.before.mram
        /\ aram = last.before.aram

\* The unlock request has been sent to an instance that waits for a request with
\* the upload flag set
C4_Witness ==
  /\ last.op = "HandleMail"
  /\ last.upload
  /\ last.state = WaitingForRequest
  /\ last.mail = <<65280, 0>>
  /\ m_state = WaitingForRequest

\* C5: a call of HandleMail asks for the switch to the ROM ucode exactly when the
\* word is 0xCDD10002, the state is WaitingForNextTask and the upload flag is clear;
\* it then does that once and sends no mail and runs no hash.  0xCDD10002 in
\* WaitingForRequest or as an address, and other words of high half 0xCDD1, do not.
C5_ResetOnly ==
  last.op = "HandleMail"
  => /\ (\E k \in 1..Len(last.events) : last.events[k][1] = "SetUCode")
        <=> (/\ ~last.upload
             /\ last.state = WaitingForNextTask
             /\ last.mail = <<52689, 2>>)
     /\ (/\ ~last.upload
         /\ last.state = WaitingForNextTask
         /\ last.mail = <<52689, 2>>)
        => /\ last.events = <<<<"SetUCode", "UCODE_ROM">>>>
           /\ last.pushed = <<>>
           /\ ~last.h.ran

\* The reset command has been sent after a hash
C5_Witness ==
  /\ last.op = "HandleMail"
  /\ ~last.upload
  /\ last.state = WaitingForNextTask
  /\ last.mail = <<52689, 2>>
  /\ last.events = <<<<"SetUCode", "UCODE_ROM">>>>

\* C6: the parameter record is read at mail AND 0x3FFFFFFF for the Wii CRC and at
\* mail AND 0x0FFFFFFF for the GameCube CRC, and its fields are the big-endian
\* values at offsets 0 (u32), 4 (u16), 6 (u16), 8 (u32) and 12 (u32) from there.
C6_AddressMasking ==
  (/\ last.op = "HandleMail"
   /\ ~last.upload
   /\ last.state = WaitingForAddress)
  => LET a == <<last.mail[1] % (IF m_crc = <<26074, 3171>> THEN 16384 ELSE 4096),
                last.mail[2]>>
         b(k) == HLEMemory_Read_U8(last.before.mram, <<a[1], a[2] + k>>)
         p == last.h.params
     IN /\ last.events[1] = <<"ReadParameters", a>>
        /\ p.mram_input_addr = <<b(0) * 256 + b(1), b(2) * 256 + b(3)>>
        /\ p.unused = b(4) * 256 + b(5)
        /\ p.input_size = b(6) * 256 + b(7)
        /\ p.aram_work_addr = <<b(8) * 256 + b(9), b(10) * 256 + b(11)>>
        /\ p.mram_output_addr = <<b(12) * 256 + b(13), b(14) * 256 + b(15)>>
        /\ last.mail = <<53248, 4112>>
           => p.mram_input_addr = InputAddr(IF m_crc = <<26074, 3171>> THEN 2 ELSE 1)

\* 0xD0001010 has been sent as an address to the Wii ucode, which read the record
\* at 0x10001010
C6_Witness ==
  /\ last.op = "HandleMail"
  /\ ~last.upload
  /\ last.state = WaitingForAddress
  /\ m_crc = <<26074, 3171>>
  /\ last.mail = <<53248, 4112>>
  /\ last.events[1] = <<"ReadParameters", <<4096, 4112>>>>
  /\ last.h.params.mram_input_addr = InputAddr(2)

-----------------------------------------------------------------------------
(* Properties of one call of DoCardHash, on SpecSteps and SpecSizes        *)

\* C7: a request of input_size 0 writes nothing to the working buffer, has a
\* new_counter of 0xFFFF, reads exactly 0x40000 nibbles from it, starting at the
\* work address, and with a working buffer that is all zero its value is 0x0ECC54F7.
C7_ZeroLength ==
  hs.params.input_size = 0
  => /\ hs.writes = 0
     /\ hs.aram = aram
     /\ ~hs.ended
     /\ hs.pc = "hash"
        => /\ hs.new_counter = 65535
           /\ hs.reads = 2 + 4 * hs.i
           /\ hs.accel.current = ToInt(hs.params.aram_work_addr) + hs.reads
     /\ hs.pc = "done"
        => /\ hs.new_counter = 65535
           /\ hs.reads = 262144
           /\ hs.accel.current = ToInt(hs.params.aram_work_addr) + 262144
           /\ hs.data.work_040a = <<3788, 21751>>
           /\ HLEMemory_Read_U32(hs.mram, hs.params.mram_output_addr) = <<3788, 21751>>

\* The request of input_size 0 and work address 6 has run to its end
C7_Witness ==
  /\ hs.pc = "done"
  /\ hs.params.input_size = 0
  /\ hs.params.aram_work_addr = <<0, 6>>
  /\ hs.steps = 131071
  /\ hs.reads = 262144

\* C8, as stated: for an input_size of 2 or more, the value written does not depend
\* on the work address nor on the output address: the same request with another
\* work address and another output address writes the same value.
C8_AddressIndependence ==
  (/\ last.op = "HandleMail"
   /\ last.h.ran
   /\ last.h.params.input_size >= 2)
  => \A w \in {<<0, 0>>, <<0, 256>>}, o \in {<<0, 12288>>, <<0, 12304>>} :
       \E h \in {DoCardHash([last.h.params EXCEPT !.aram_work_addr = w,
                                                  !.mram_output_addr = o],
                            last.before.mram, last.before.aram, last.before.accel)} :
         HLEMemory_Read_U32(h.mram, o) = last.h.result

\* C8, amended: for an input_size of 2 or more, the value written does not depend
\* on the output address: the same request with another output address writes the
\* same value there; 01 23 45 67 89 AB CD EF at work address 0 gives 0x9B5FE1FB at
\* either output address.
C8_OutputIndependence ==
  (/\ last.op = "HandleMail"
   /\ last.h.ran
   /\ last.h.params.input_size >= 2)
  => /\ \A o \in {<<0, 12288>>, <<0, 12304>>} :
          \E h \in {DoCardHash([last.h.params EXCEPT !.mram_output_addr = o],
                               last.before.mram, last.before.aram, last.before.accel)} :
            HLEMemory_Read_U32(h.mram, o)
              = HLEMemory_Read_U32(mram, last.h.params.mram_output_addr)
     /\ (/\ last.h.buffer = <<1, 35, 69, 103, 137, 171, 205, 239>>
         /\ last.h.params.input_size = 8
         /\ last.h.params.aram_work_addr = <<0, 0>>)
        => HLEMemory_Read_U32(mram, last.h.params.mram_output_addr) = <<39775, 57851>>

\* 01 23 45 67 89 AB CD EF has been hashed at work address 0 to the output address
\* 0x3010, after it was hashed to the output address 0x3000
C8_Witness ==
  /\ last.op = "HandleMail"
  /\ last.h.ran
  /\ last.h.buffer = <<1, 35, 69, 103, 137, 171, 205, 239>>
  /\ last.h.params.input_size = 8
  /\ last.h.params.mram_output_addr = <<0, 12304>>
  /\ last.h.params.aram_work_addr = <<0, 0>>
  /\ HLEMemory_Read_U32(mram, <<0, 12304>>) = <<39775, 57851>>
  /\ HLEMemory_Read_U32(mram, <<0, 12288>>) = <<39775, 57851>>

\* C9: for every input_size the number of bytes copied to the local buffer is
\* input_size rounded up to a multiple of 4, and every index read from the buffer
\* (2i and 2i + 1 for i < input_size / 2, and input_size - 1 and input_size for an
\* odd size) is less than the number of bytes copied.
C9_BufferSafety ==
  hs.pc = "streamed"
  => /\ hs.copied = 4 * ((hs.input_size + 3) \div 4)
     /\ \A index \in BufferIndices(hs.input_size) : index < hs.copied
     /\ ~hs.undefined

\* C10: in every state, what DoState writes, read by a freshly constructed
\* instance, gives the same m_state, one of the three, and the same upload flag:
\* in the same process the restored instance is the running one over again, and in
\* a new process, where the accelerator is fresh, it reacts to every mail word as
\* the running one does; after a snapshot is loaded the instance has the m_state
\* and the flag of the instance the snapshot was taken of.
C10_SnapshotRoundTrip ==
  /\ m_state \in State
  /\ Constructed(Machine).accel = accel
  /\ DoStateRead(Constructed(Machine), DoStateWrite(Machine)) = Machine
  /\ \E restored \in {[DoStateRead(Constructed(Machine), DoStateWrite(Machine))
                          EXCEPT !.accel = FreshAccelerator]} :
       /\ restored.m_state = m_state
       /\ restored.m_upload_setup_in_progress = m_upload_setup_in_progress
       /\ \A w \in (IF m_state = WaitingForAddress /\ ~m_upload_setup_in_progress
                    THEN AddressWords ELSE MailWords) :
            \E r \in {HandleMailFn(restored, w)}, o \in {HandleMailFn(Machine, w)} :
              /\ r.events = o.events
              /\ r.h = o.h
              /\ [r.m EXCEPT !.accel = FreshAccelerator]
                   = [o.m EXCEPT !.accel = FreshAccelerator]
              /\ r.h.ran => r.m.accel = o.m.accel
  /\ (last.op = "DoState" /\ last.mode = "read")
     => /\ m_state = saved.m_state
        /\ m_upload_setup_in_progress = saved.upload

\* A snapshot taken while an address was awaited has been loaded after the hash
\* was done
C10_Witness ==
  /\ last.op = "DoState"
  /\ last.mode = "read"
  /\ saved.m_state = WaitingForAddress
  /\ m_state = WaitingForAddress
  /\ Len(mailbox) > 0
  /\ accel # FreshAccelerator

-----------------------------------------------------------------------------
(* Further properties of the protocol, on Spec                             *)

\* C11, as stated: Initialize, in whatever state it is called, pushes exactly one
\* DSP_INIT and leaves the instance in WaitingForRequest, and 0xFF000000 sent next
\* is taken as the unlock request and moves it to WaitingForAddress.
C11_InitializeThenUnlock ==
  last.op = "Initialize"
  => /\ last.pushed = <<"DSP_INIT">>
     /\ m_state = WaitingForRequest
     /\ \E r \in {HandleMailFn(Machine, <<65280, 0>>)} :
          /\ r.m.m_state = WaitingForAddress
          /\ r.events = <<>>

\* C11, amended: Initialize, in whatever state it is called, pushes exactly one
\* DSP_INIT, leaves the instance in WaitingForRequest and leaves the upload flag as
\* it is.  With the flag clear, 0xFF000000 sent next is taken as the unlock request
\* and moves the instance to WaitingForAddress; with the flag set it is handed to
\* PrepareBootUCode and the instance stays in WaitingForRequest.
C11_InitializeKeepsFlag ==
  last.op = "Initialize"
  => /\ last.pushed = <<"DSP_INIT">>
     /\ mailbox[Len(mailbox)] = "DSP_INIT"
     /\ m_state = WaitingForRequest
     /\ m_upload_setup_in_progress = last.upload
     /\ \E r \in {HandleMailFn(Machine, <<65280, 0>>)} :
          /\ ~m_upload_setup_in_progress
             => r.m.m_state = WaitingForAddress /\ r.events = <<>>
          /\ m_upload_setup_in_progress
             => /\ r.m.m_state = WaitingForRequest
                /\ r.events = <<<<"PrepareBootUCode", <<65280, 0>>>>>>
          /\ r.m.mailbox = mailbox

\* Initialize has been called after 0xCDD10001 had set the upload flag
C11_Witness ==
  /\ last.op = "Initialize"
  /\ last.state = WaitingForNextTask
  /\ last.upload
  /\ m_upload_setup_in_progress
  /\ m_state = WaitingForRequest

-----------------------------------------------------------------------------
(* The accelerator on its own: words written from address 0, then nibbles    *)
(* read from address 0                                                       *)

\* The sequences of words written: one to MaxWords words out of WordSamples (the
\* words of an input of 2 to 2 * MaxWords bytes), to an ARAM that is all zero or
\* holds 0xA5 in its first 16 bytes
MaxWords == 3
WordSamples == {0, 291, 35243, 65535}
WordSequences == UNION {[1..n -> WordSamples] : n \in 1..MaxWords}

\* The calls of ReadD3 that DoCardHash makes: two for prev1 and prev2, four in each
\* of the new_counter iterations, and two in the last step of an even size
ReadCount(input_size) ==
  2 + 4 * NewCounter(input_size) + (IF input_size % 2 = 0 THEN 2 ELSE 0)

InitAccel ==
  /\ m_crc = CRC_GAMECUBE
  /\ m_state = WaitingForAddress
  /\ m_upload_setup_in_progress = FALSE
  /\ mailbox = <<>>
  /\ mram = <<>>
  /\ aram = <<>>
  /\ accel = FreshAccelerator
  /\ last = NoCall
  /\ inits = 0
  /\ saved = NoSnapshot
  /\ hs \in {[pc |-> "write", words |-> ws, aram |-> ar,
              accel |-> SetupAccelerator(accel, 33554431, 0),
              writes |-> 0, reads |-> 0, ended |-> FALSE, nibbles |-> <<>>] :
               ws \in WordSequences, ar \in {<<>>, [a \in 0..15 |-> 165]}}

\* s_accelerator->WriteD3(value), for the next word
AccelWrite ==
  /\ hs.pc = "write"
  /\ hs.writes < Len(hs.words)
  /\ hs' = WriteD3(hs, hs.words[hs.writes + 1])
  /\ UNCHANGED mainvars

\* The accelerator set up again, for reading nibbles from address 0
AccelSetupRead ==
  /\ hs.pc = "write"
  /\ hs.writes = Len(hs.words)
  /\ hs' = [hs EXCEPT !.accel = SetupAccelerator(hs.accel, 134217727, 0), !.pc = "read"]
  /\ UNCHANGED mainvars

\* s_accelerator->ReadD3(), as many times as DoCardHash calls it for an input of
\* the words written
AccelRead ==
  /\ hs.pc = "read"
  /\ hs.reads < ReadCount(2 * Len(hs.words))
  /\ hs' = [AfterReadD3(hs) EXCEPT
              !.nibbles = Append(hs.nibbles, NibbleAt(hs.aram, hs.accel.current))]
  /\ UNCHANGED mainvars

NextAccel == AccelWrite \/ AccelSetupRead \/ AccelRead

SpecAccel == InitAccel /\ [][NextAccel]_vars

\* C12: words written in word mode from address 0 and then read in nibble mode from
\* address 0 come back as two nibbles for every byte written, the bytes in the
\* big-endian order of the words, the high nibble first, each nibble in 0..15.
C12_AcceleratorRoundTrip ==
  hs.pc = "read"
  => \A k \in 1..Len(hs.nibbles) :
       LET b == (k - 1) \div 2
           word == hs.words[(b \div 2) + 1]
           byte == IF b % 2 = 0 THEN word \div 256 ELSE word % 256
       IN /\ hs.nibbles[k] \in 0..15
          /\ hs.nibbles[k] = IF (k - 1) % 2 = 0 THEN byte \div 16 ELSE byte % 16

\* 0x0123 and 0x89AB have been written over stale bytes and read back whole
C12_Witness ==
  /\ hs.pc = "read"
  /\ hs.words = <<291, 35243>>
  /\ hs.nibbles = <<0, 1, 2, 3, 8, 9, 10, 11>>
  /\ hs.aram[4] = 165

\* C13: for an even input_size of 2 or more, the value a request writes is that of
\* the same request (same input bytes, size, work address and working buffer) run
\* with the accelerator in any other condition: fresh, or left by other requests.
\* Nothing of an earlier call is used by a later one.
C13_Determinism ==
  (/\ last.op = "HandleMail"
   /\ last.h.ran
   /\ last.h.params.input_size >= 2
   /\ last.h.params.input_size % 2 = 0)
  => \A acc \in {FreshAccelerator,
                 [format |-> 0, start |-> 0, end |-> 134217727, current |-> 16],
                 [format |-> 0, start |-> 0, end |-> 33554431, current |-> 260],
                 [format |-> 5, start |-> 64, end |-> 80, current |-> 72]} :
       \E h \in {DoCardHash(last.h.params, last.before.mram, last.before.aram, acc)} :
         /\ h.data.work_040a = last.h.result
         /\ HLEMemory_Read_U32(h.mram, last.h.params.mram_output_addr)
              = HLEMemory_Read_U32(mram, last.h.params.mram_output_addr)
         /\ h.aram = aram
         /\ h.accel = accel

\* 01 23 45 67 89 AB CD EF has been hashed with the accelerator and the working
\* buffer as the hash of another input left them
C13_Witness ==
  /\ last.op = "HandleMail"
  /\ last.h.ran
  /\ last.h.params.input_size = 8
  /\ last.h.buffer = <<1, 35, 69, 103, 137, 171, 205, 239>>
  /\ last.before.accel = [format |-> 0, start |-> 0, end |-> 134217727, current |-> 16]
  /\ last.before.aram # <<>>
  /\ last.before.aram # aram

-----------------------------------------------------------------------------
(* Two instances of CARDUCode in one process.  m_crc, m_state, the upload    *)
(* flag and the mailbox are here functions from the instances to the fields  *)
(* of each; guest memory, ARAM and the static s_accelerator are shared.      *)

Instances == {"A", "B"}

\* m_state as a static: an assignment by one instance is seen by all
SetMember_Static(field, i, value) == [j \in DOMAIN field |-> value]

\* m_state is a non-static data member: an assignment changes it for instance i
SetMember(field, i, value) == [field EXCEPT ![i] = value]

\* Instance i together with the shared memories, with the fields taken from f
InstanceOf(i, f) ==
  [m_crc |-> m_crc[i], m_state |-> f.m_state[i],
   m_upload_setup_in_progress |-> f.m_upload_setup_in_progress[i],
   mailbox |-> f.mailbox[i], mram |-> f.mram, aram |-> f.aram, accel |-> f.accel]

\* The fields and memories as they are now
Fields ==
  [m_state |-> m_state, m_upload_setup_in_progress |-> m_upload_setup_in_progress,
   mailbox |-> mailbox, mram |-> mram, aram |-> aram, accel |-> accel]

InitPair ==
  /\ m_crc \in {[i \in Instances |-> CRC_GAMECUBE],
                [i \in Instances |-> IF i = "A" THEN CRC_GAMECUBE ELSE CRC_WII]}
  /\ m_state = [i \in Instances |-> WaitingForRequest]
  /\ m_upload_setup_in_progress = [i \in Instances |-> FALSE]
  /\ mailbox = [i \in Instances |-> <<>>]
  /\ mram = <<>>
  /\ aram = <<>>
  /\ accel = FreshAccelerator
  /\ last = NoCall
  /\ inits = 0
  /\ saved = NoSnapshot
  /\ hs = <<>>

\* i->HandleMail(mail)
PairHandleMail(i, mail) ==
  /\ (~m_upload_setup_in_progress[i] /\ m_state[i] = WaitingForAddress)
       => mail \in AddressWords
  /\ \E r \in {HandleMailFn(InstanceOf(i, Fields), mail)} :
     /\ m_state' = SetMember(m_state, i, r.m.m_state)
     /\ m_upload_setup_in_progress' =
          [m_upload_setup_in_progress EXCEPT ![i] = r.m.m_upload_setup_in_progress]
     /\ mailbox' = [mailbox EXCEPT ![i] = r.m.mailbox]
     /\ mram' = r.m.mram
     /\ aram' = r.m.aram
     /\ accel' = r.m.accel
     /\ last' = [op |-> "HandleMail", instance |-> i, mail |-> mail, events |-> r.events,
                 h |-> r.h, before |-> Fields]
  /\ UNCHANGED <<m_crc, inits, saved, hs>>

NextPair == \E i \in Instances, mail \in MailWords : PairHandleMail(i, mail)

SpecPair == InitPair /\ [][NextPair]_vars

\* C14: a mail word delivered to one instance does not change how another takes its
\* next word: for every word, the other instance ends in the same m_state, with the
\* same upload flag, pushes the same mail and makes the same calls as it would have
\* before the delivery.
C14_PhaseOwnedByInstance ==
  last.op = "HandleMail"
  => \A j \in Instances \ {last.instance} :
       /\ m_state[j] = last.before.m_state[j]
       /\ m_upload_setup_in_progress[j] = last.before.m_upload_setup_in_progress[j]
       /\ mailbox[j] = last.before.mailbox[j]
       /\ \A w \in (IF m_state[j] = WaitingForAddress /\ ~m_upload_setup_in_progress[j]
                    THEN AddressWords ELSE MailWords) :
            \E now \in {HandleMailFn(InstanceOf(j, Fields), w)},
               was \in {HandleMailFn(InstanceOf(j, last.before), w)} :
              /\ now.m.m_state = was.m.m_state
              /\ now.m.m_upload_setup_in_progress = was.m.m_upload_setup_in_progress
              /\ now.m.mailbox = was.m.mailbox
              /\ [k \in DOMAIN now.events |-> now.events[k][1]]
                   = [k \in DOMAIN was.events |-> was.events[k][1]]
              /\ now.h.ran = was.h.ran

\* A has run its hash while B was waiting for its address
C14_Witness ==
  /\ last.op = "HandleMail"
  /\ last.instance = "A"
  /\ last.h.ran
  /\ m_state["A"] = WaitingForNextTask
  /\ m_state["B"] = WaitingForAddress
  /\ mram # last.before.mram

-----------------------------------------------------------------------------
(* Short requests with every content: the host has written one parameter     *)
(* record and an input of MaxInputSize bytes or less, the instance has taken *)
(* the unlock request, and the address of the record is delivered.           *)

MaxInputSize == 3
ByteSamples == {0, 1, 128, 255}

\* The bytes the copy of the input takes: the input and its padding
InputBuffers == [1..DmaSize(MaxInputSize) -> ByteSamples]

\* Guest memory with a record at ParamBase for bytes at InputBase
HostMemory(bytes, input_size, work) ==
  LET record == BytesOfU32(InputAddr(0)) \o BytesOfU16(0) \o BytesOfU16(input_size)
                  \o BytesOfU32(U32(work)) \o BytesOfU32(<<0, 12288>>)
  IN [a \in {<<0, Layout.ParamBase + i>> : i \in 0..(Len(record) - 1)}
            \cup {<<0, Layout.InputBase + i>> : i \in 0..(Len(bytes) - 1)} |->
        IF a[2] >= Layout.InputBase THEN bytes[a[2] - Layout.InputBase + 1]
        ELSE record[a[2] - Layout.ParamBase + 1]]

\* What the working buffer holds before the request
PriorARAM == {<<>>, [a \in 0..15 |-> 165]}

InitInputs ==
  /\ m_crc = CRC_GAMECUBE
  /\ m_state = WaitingForAddress
  /\ m_upload_setup_in_progress = FALSE
  /\ mailbox = <<>>
  /\ mram \in {HostMemory(bytes, n, work) :
                 bytes \in InputBuffers, n \in 1..MaxInputSize, work \in {0, 2}}
  /\ aram \in PriorARAM
  /\ accel = FreshAccelerator
  /\ last = NoCall
  /\ inits = 0
  /\ saved = NoSnapshot
  /\ hs = <<>>

\* HandleMail with the address of the record
NextInputs == m_state = WaitingForAddress /\ HandleMail(<<0, Layout.ParamBase>>)

SpecInputs == InitInputs /\ [][NextInputs]_vars

\* C15: a request with input_size = 1 takes no combining step and writes 0x05EFE0AA
\* to its output address, whatever the input byte, the padding and the working
\* buffer hold, and DSP_DONE is sent.
C15_SizeOne ==
  (last.op = "HandleMail" /\ last.h.ran /\ last.h.params.input_size = 1)
  => /\ last.h.steps = 0
     /\ last.h.result = <<1519, 57514>>
     /\ HLEMemory_Read_U32(mram, last.h.params.mram_output_addr) = <<1519, 57514>>
     /\ last.pushed = <<"DSP_DONE">>
     /\ m_state = WaitingForNextTask

\* a size-1 request with input byte 0xFF, padding that is not zero, a working buffer
\* that held something and at a work address that is not zero
C15_Witness ==
  /\ last.op = "HandleMail"
  /\ last.h.ran
  /\ last.h.params.input_size = 1
  /\ last.h.buffer = <<255, 128, 1, 255>>
  /\ last.before.aram # <<>>
  /\ ToInt(last.h.params.aram_work_addr) = 2
  /\ last.pushed = <<"DSP_DONE">>

\* C16: with work address 0 the value written to the output address is the one the
\* same first input_size bytes give with zeros for padding and an empty working
\* buffer: the bytes of the buffer from index input_size on, the low half of the
\* last word of an odd size among them, and what the working buffer held before
\* do not change it.
C16_PaddingIndependence ==
  (/\ last.op = "HandleMail"
   /\ last.h.ran
   /\ last.h.params.input_size >= 1
   /\ last.h.params.aram_work_addr = <<0, 0>>)
  => \E plain \in {DoCardHash(last.h.params,
                     HostMemory([i \in DOMAIN last.h.buffer |->
                                   IF i <= last.h.params.input_size THEN last.h.buffer[i]
                                   ELSE 0],
                                last.h.params.input_size, 0),
                     <<>>, FreshAccelerator)} :
       /\ last.h.result = plain.data.work_040a
       /\ HLEMemory_Read_U32(mram, last.h.params.mram_output_addr) = plain.data.work_040a

\* an odd size with 0xFF in the low half of its last word and a working buffer
\* that held something
C16_Witness ==
  /\ last.op = "HandleMail"
  /\ last.h.ran
  /\ last.h.params.input_size = 3
  /\ last.h.params.aram_work_addr = <<0, 0>>
  /\ last.h.buffer = <<1, 128, 255, 255>>
  /\ last.before.aram # <<>>
  /\ last.h.steps = 2

-----------------------------------------------------------------------------
(* Counts of one call of DoCardHash, on SpecSteps                           *)

\* The bytes of ARAM that writes words take from the word address work on
BytesWritten(work, writes) ==
  {2 * (work + k) : k \in 0..(writes - 1)} \cup {2 * (work + k) + 1 : k \in 0..(writes - 1)}

\* The bytes of ARAM that hold the reads nibbles from the nibble address work on
BytesRead(work, reads) == {(work + k) \div 2 : k \in 0..(reads - 1)}

-----------------------------------------------------------------------------
(* One call of DoCardHashStep on work data of every kind: the rotation      *)

\* Values of work_0408, of work_0410 (every residue mod 32, and large ones) and of
\* work_0411 before the step (0xFFFF wraps to 0)
Work0408Samples ==
  {<<0, 0>>, <<0, 1>>, <<32768, 0>>, <<65535, 65535>>, <<4660, 22136>>, <<0, 65535>>,
   <<43690, 21845>>, <<5898, 29833>>}
Work0410Samples == (0..31) \cup {32768, 65503, 65535}
Work0411Samples == {0, 1, 30, 31, 65534, 65535}

InitRotate ==
  /\ m_crc = CRC_GAMECUBE
  /\ m_state = WaitingForAddress
  /\ m_upload_setup_in_progress = FALSE
  /\ mailbox = <<>>
  /\ mram = <<>>
  /\ aram = <<>>
  /\ accel = FreshAccelerator
  /\ last = NoCall
  /\ inits = 0
  /\ saved = NoSnapshot
  /\ hs \in {[pc |-> "step",
              data |-> [work_0408 |-> a, work_040a |-> <<1519, 57514>>,
                        work_040c |-> <<56052, 45399>>, work_040e |-> <<27582, 50102>>,
                        work_0410 |-> r, work_0411 |-> c]] :
               a \in Work0408Samples, r \in Work0410Samples, c \in Work0411Samples}

\* DoCardHashStep(&data, 0, 0, 0, 0), with tmp2, rotate and tmp3 kept
RotateStep ==
  /\ hs.pc = "step"
  /\ \E after \in {DoCardHashStep(hs.data, 0, 0, 0, 0)} :
     \E tmp2 \in {Add32(Xor32(hs.data.work_040c, hs.data.work_040e), after.work_0408)} :
     \E rotate \in {StepRotate(hs.data.work_0410, after.work_0411)} :
       hs' = [pc |-> "stepped", data |-> hs.data, after |-> after, tmp2 |-> tmp2,
              rotate |-> rotate, tmp3 |-> StepTmp3(tmp2, rotate)]
  /\ UNCHANGED mainvars

NextRotate == RotateStep

SpecRotate == InitRotate /\ [][NextRotate]_vars

\* C18: after a step, rotate is (work_0410 + the incremented work_0411) mod 32, the
\* increment wrapping from 0xFFFF to 0; bit i of tmp3 is bit (i + rotate) mod 32 of
\* tmp2, which is tmp2 rotated right by rotate; and work_040a has grown by tmp3.
C18_RotateRight ==
  hs.pc = "stepped"
  => LET Bit(v, i) == IF i < 16 THEN (v[2] \div (2 ^ i)) % 2
                      ELSE (v[1] \div (2 ^ (i - 16))) % 2
     IN /\ hs.after.work_0411 = (hs.data.work_0411 + 1) % 65536
        /\ hs.rotate \in 0..31
        /\ hs.rotate = (hs.data.work_0410 + hs.after.work_0411) % 32
        /\ \A i \in 0..31 : Bit(hs.tmp3, i) = Bit(hs.tmp2, (i + hs.rotate) % 32)
        /\ hs.tmp3[1] \in 0..65535 /\ hs.tmp3[2] \in 0..65535
        /\ hs.after.work_040a = Add32(hs.data.work_040a, hs.tmp3)

\* the step at which work_0411 wraps, with a rotation by 31 bits that brings bits
\* round from the low end
C18_Witness ==
  /\ hs.pc = "stepped"
  /\ hs.data.work_0411 = 65535
  /\ hs.after.work_0411 = 0
  /\ hs.data.work_0410 = 65535
  /\ hs.rotate = 31
  /\ hs.tmp3 # Shr32(hs.tmp2, 31)

-----------------------------------------------------------------------------
(* An instance that is initialized and then only handles mail: no snapshot  *)
(* is loaded                                                                *)

NextSession ==
  \/ Initialize
  \/ \E mail \in MailWords : HandleMail(mail)
  \/ Update
  \/ DoStateSave

SpecSession == Init /\ [][NextSession]_vars

\* C19: after the last DSP_INIT the mailbox holds at most one DSP_DONE; and in every
\* call other than Initialize m_state stays or moves on in the order
\* WaitingForRequest, WaitingForAddress, WaitingForNextTask, the hash runs only in
\* the call that moves from WaitingForAddress to WaitingForNextTask and sends
\* DSP_DONE, no other call sends it, and the upload flag becomes set only in
\* WaitingForNextTask.
C19_OneHashPerInitialization ==
  /\ [](\A k \in DOMAIN mailbox :
          (mailbox[k] = "DSP_INIT" /\ \A j \in (k + 1)..Len(mailbox) : mailbox[j] # "DSP_INIT")
          => Cardinality({j \in (k + 1)..Len(mailbox) : mailbox[j] = "DSP_DONE"}) <= 1)
  /\ [][LET Rank(s) == CASE s = WaitingForRequest -> 0
                         [] s = WaitingForAddress -> 1
                         [] s = WaitingForNextTask -> 2
        IN last'.op # "Initialize"
           => /\ Rank(m_state') >= Rank(m_state)
              /\ (m_upload_setup_in_progress' /\ ~m_upload_setup_in_progress)
                   => (m_state = WaitingForNextTask /\ m_state' = WaitingForNextTask)
              /\ last'.op = "HandleMail"
                   => /\ last'.h.ran
                        <=> (Rank(m_state) = 1 /\ Rank(m_state') = 2)
                      /\ last'.h.ran <=> last'.pushed = <<"DSP_DONE">>
                      /\ ~last'.h.ran => last'.pushed = <<>>
              /\ last'.op # "HandleMail" => mailbox' = mailbox]_vars

\* after Initialize and one hash, the unlock word and an address have been sent
\* again and the mailbox still ends with the one DSP_DONE
C19_Witness ==
  /\ Len(mailbox) >= 2
  /\ mailbox[Len(mailbox) - 1] = "DSP_INIT"
  /\ mailbox[Len(mailbox)] = "DSP_DONE"
  /\ last.op = "HandleMail"
  /\ last.state = WaitingForNextTask
  /\ last.mail = <<0, Layout.ParamBase>>
  /\ m_state = WaitingForNextTask

-----------------------------------------------------------------------------
(* One call of DoCardHashStep on every four nibbles: the mixing             *)

\* What ReadD3 gives in format 0
Nibbles == 0..15

InitMix ==
  /\ m_crc = CRC_GAMECUBE
  /\ m_state = WaitingForAddress
  /\ m_upload_setup_in_progress = FALSE
  /\ mailbox = <<>>
  /\ mram = <<>>
  /\ aram = <<>>
  /\ accel = FreshAccelerator
  /\ last = NoCall
  /\ inits = 0
  /\ saved = NoSnapshot
  /\ hs \in {[pc |-> "mix", prev1 |-> p1, prev2 |-> p2, new1 |-> n1, new2 |-> n2] :
               p1 \in Nibbles, p2 \in Nibbles, n1 \in Nibbles, n2 \in Nibbles}

\* DoCardHashStep on the work data of a sum of 0, with tmp1 kept
MixStep ==
  /\ hs.pc = "mix"
  /\ \E data \in {[work_0408 |-> <<5898, 29833>>, work_040a |-> <<1519, 57514>>,
                   work_040c |-> <<56052, 45399>>, work_040e |-> <<27582, 50102>>,
                   work_0410 |-> 8, work_0411 |-> 0]} :
       hs' = [pc |-> "mixed", prev1 |-> hs.prev1, prev2 |-> hs.prev2, new1 |-> hs.new1,
              new2 |-> hs.new2, data |-> data,
              tmp1 |-> StepTmp1(hs.prev1, hs.prev2, hs.new1, hs.new2),
              after |-> DoCardHashStep(data, hs.prev1, hs.prev2, hs.new1, hs.new2)]
  /\ UNCHANGED mainvars

NextMix == MixStep

SpecMix == InitMix /\ [][NextMix]_vars

\* C20 as stated: tmp1 is (new1 << 12) | (prev1 << 8) | (new2 << 4) | prev2, xored
\* with 0xFF00 when new2 & 0x80 is not zero.
C20_MixAsCommented ==
  hs.pc = "mixed"
  => LET tmp == Or16(Or16((hs.new1 * 4096) % 65536, (hs.prev1 * 256) % 65536),
                     Or16((hs.new2 * 16) % 65536, hs.prev2))
     IN hs.tmp1 = IF And16(hs.new2, 128) # 0 THEN Xor16(tmp, 65280) ELSE tmp

\* C20, what lines 135-141 compute: tmp1 is
\* (new1 << 12) | (prev1 << 8) | (new2 << 4) | prev2, xored with 0xFF00 when
\* new2 & 0x8 is not zero (bit 7 of the low byte is bit 3 of new2); it is what the
\* step adds to work_0408.
C20_MixSimplified ==
  hs.pc = "mixed"
  => LET tmp == Or16(Or16((hs.new1 * 4096) % 65536, (hs.prev1 * 256) % 65536),
                     Or16((hs.new2 * 16) % 65536, hs.prev2))
     IN /\ hs.tmp1 = IF And16(hs.new2, 8) # 0 THEN Xor16(tmp, 65280) ELSE tmp
        /\ hs.tmp1 \in 0..65535
        /\ hs.after.work_0408 = Add32(hs.data.work_0408, <<0, hs.tmp1>>)

\* new2 with its top bit set and all bits of prev1 and new1 set: 0xFF8F xor 0x0F00
\* xor 0xF000
C20_Witness ==
  /\ hs.pc = "mixed"
  /\ hs.new2 = 8
  /\ hs.prev2 = 15
  /\ hs.prev1 = 15
  /\ hs.new1 = 15
  /\ hs.tmp1 = 143

=============================================================================
